---- MODULE Spec2Model ----
(***************************************************************************)
(* Model of routines/preprocessing.py: the preprocessing routine that      *)
(* bins a random and an observed catalog into the tables centerZ,          *)
(* centerRA, centerDec, pdfZ, ang and angzD.                               *)
(*                                                                         *)
(* Coordinates, edges and weights are integers and the arithmetic is       *)
(* exact; floating point rounding of sums is not modelled.  The storage    *)
(* conversions the code asks for (FITS column formats 'I' and 'E') are     *)
(* modelled by what they do to those integers.                             *)
(***************************************************************************)
EXTENDS Integers, Sequences, FiniteSets, TLC

VARIABLES config, ctlgR, ctlgD, pc, hdus, file, iMax, width

vars == <<config, ctlgR, ctlgD, pc, hdus, file, iMax, width>>

\* Largest number of catalog entries (random plus observed) of a run.
MaxEntries == 3

\* np.iinfo(np.int16).max, also the range of a FITS 'I' column.
Int16Max == 32767

\* Largest integer magnitude a float32 (FITS 'E' column) holds exactly: 2^24.
Float32Exact == 16777216

(***************************************************************************)
(* Helpers                                                                 *)
(***************************************************************************)
SumSeq(s) ==
  LET f[n \in 0..Len(s)] == IF n = 0 THEN 0 ELSE f[n-1] + s[n]
  IN f[Len(s)]

SeqsUpTo(S, n) == UNION {[1..k -> S] : k \in 0..n}

(***************************************************************************)
(* Configuration: the binning of each axis is {'bins': n, 'range': (lo,    *)
(* hi)}; the code reads ['bins'] as an integer count.                      *)
(***************************************************************************)
Configs ==
  { [binningZ   |-> [bins |-> 2, lo |-> 0, hi |-> 2],
     binningRA  |-> [bins |-> 2, lo |-> 0, hi |-> 2],
     binningDec |-> [bins |-> 2, lo |-> 0, hi |-> 2]],
    [binningZ   |-> [bins |-> 1, lo |-> 0, hi |-> 2],
     binningRA  |-> [bins |-> 2, lo |-> 0, hi |-> 2],
     binningDec |-> [bins |-> 1, lo |-> 0, hi |-> 1]] }

\* Bin edges of a uniform binning: bins+1 values from lo to hi (1-based sequence).
edges(binning) ==
  [i \in 1..(binning.bins + 1) |->
     binning.lo + ((i - 1) * (binning.hi - binning.lo)) \div binning.bins]

\* utils.centers: midpoints of consecutive edges, in half units (edge[i]+edge[i+1]).
centers(e) == [i \in 1..(Len(e) - 1) |-> e[i] + e[i+1]]

\* numpy's histogram binning on edges: edges[b] <= v < edges[b+1], the last
\* bin closed on the right; values outside the range belong to no bin.
InBin(v, binning, b) ==
  LET e == edges(binning)
  IN /\ e[b+1] <= v
     /\ \/ v < e[b+2]
        \/ b = binning.bins - 1 /\ v = e[b+2]

InRange(v, binning) == binning.lo <= v /\ v <= binning.hi

\* utils.toBins: index of the bin of an in-range value, the last bin closed.
toBins(values, binning) ==
  [k \in 1..Len(values) |->
     LET i == ((values[k] - binning.lo) * binning.bins) \div (binning.hi - binning.lo)
     IN IF i = binning.bins THEN binning.bins - 1 ELSE i]

Column(ctlg, field) == [k \in 1..Len(ctlg) |-> ctlg[k][field]]

(***************************************************************************)
(* Storage conversions of the FITS columns                                 *)
(***************************************************************************)
\* ndarray.astype(int16), what a column of format 'I' does to the array it is
\* given.  A value outside the int16 range has no defined result for a float
\* source: builds wrap it modulo 2^16 or saturate it, which `mode` selects.
AsInt16(x, mode) ==
  IF -(Int16Max + 1) <= x /\ x <= Int16Max THEN x
  ELSE IF mode = "wrap"
       THEN ((x + Int16Max + 1) % (2 * (Int16Max + 1))) - (Int16Max + 1)
       ELSE IF x > 0 THEN Int16Max ELSE -(Int16Max + 1)

RECURSIVE Ulp32(_, _)
Ulp32(a, p) == IF a \div p < Float32Exact THEN p ELSE Ulp32(a, 2 * p)

\* ndarray.astype(float32) of an integer value (format 'E'): exact up to 2^24,
\* beyond it rounded to the nearest representable value, ties to even.
AsFloat32(x) ==
  LET a == IF x < 0 THEN -x ELSE x
      p == Ulp32(a, 1)
      q == a \div p
      r == a % p
      m == IF 2 * r < p THEN q
           ELSE IF 2 * r > p THEN q + 1
           ELSE IF q % 2 = 0 THEN q ELSE q + 1
  IN IF x < 0 THEN -(m * p) ELSE m * p

(***************************************************************************)
(* iType                                                                   *)
(***************************************************************************)
\* Index values reach past 2^63, so they are written as five 16-bit limbs,
\* most significant first.
Less(a, b) ==
  \E i \in 1..5 : a[i] < b[i] /\ \A j \in 1..(i-1) : a[j] = b[j]

Int16MaxL == <<0, 0, 0, 0, Int16Max>>
Int32MaxL == <<0, 0, 0, Int16Max, 65535>>

\* Variant of iType that compares with <= instead of <.
iType_le(x) ==
  IF ~Less(Int16MaxL, x) THEN "int16"
  ELSE IF ~Less(Int32MaxL, x) THEN "int32"
  ELSE "int64"

iType(x) ==
  IF Less(x, Int16MaxL) THEN "int16"
  ELSE IF Less(x, Int32MaxL) THEN "int32"
  ELSE "int64"

(***************************************************************************)
(* pdfZ                                                                    *)
(***************************************************************************)
\* Variant of BinSum whose last bin is open on the right.
BinSum_open(values, weights, binning, b) ==
  SumSeq([k \in 1..Len(values) |->
            IF edges(binning)[b+1] <= values[k] /\ values[k] < edges(binning)[b+2]
            THEN weights[k] ELSE 0])

\* The weights of the values that fall in bin b, summed.
BinSum(values, weights, binning, b) ==
  SumSeq([k \in 1..Len(values) |->
            IF InBin(values[k], binning, b) THEN weights[k] ELSE 0])

\* np.histogram(z, weights = weightZ / sum(weightZ), bins, range).  A bin's
\* value is the fraction num/den with den = sum(weightZ).  When that sum is 0
\* the division yields inf or nan and no error: a bin that receives an entry
\* holds a non-finite value (den = 0), an empty bin holds 0.
histogram(values, weights, binning) ==
  LET S == SumSeq(weights)
  IN [b \in 0..(binning.bins - 1) |->
        IF S # 0 THEN [num |-> BinSum(values, weights, binning, b), den |-> S]
        ELSE IF \A k \in 1..Len(values) : ~InBin(values[k], binning, b)
             THEN [num |-> 0, den |-> 1]
             ELSE [num |-> BinSum(values, weights, binning, b), den |-> 0]]

\* zip(edges, frq): pairs up to the shorter of the two, so one row per bin.
zip(e, frq, n) ==
  [i \in 1..(IF Len(e) < n THEN Len(e) ELSE n) |->
     [lowEdge |-> e[i], probability |-> frq[i-1]]]

pdfZ(ctlg) ==
  LET frq == histogram(Column(ctlg, "z"), Column(ctlg, "weightZ"), config.binningZ)
  IN [name |-> "pdfZ",
      data |-> zip(edges(config.binningZ), frq, config.binningZ.bins)]

binCenters(e, name) == [name |-> name, data |-> centers(e)]

(***************************************************************************)
(* ang                                                                     *)
(***************************************************************************)
Cells(n0, n1) == (0..(n0 - 1)) \X (0..(n1 - 1))

\* np.histogram2d(x, y, weights, bins, range): raw weighted counts per cell;
\* a value outside the range of its axis is counted in no cell.
histogram2d(x, y, weights, bx, by) ==
  [c \in Cells(bx.bins, by.bins) |->
     SumSeq([k \in 1..Len(x) |->
               IF InBin(x[k], bx, c[1]) /\ InBin(y[k], by, c[2])
               THEN weights[k] ELSE 0])]

\* np.meshgrid(range(n0), range(n1), indexing='ij')
meshgridX(n0, n1) == [c \in Cells(n0, n1) |-> c[1]]
meshgridY(n0, n1) == [c \in Cells(n0, n1) |-> c[2]]

\* Variant of logical_or that requires both histograms to be positive.
logical_or_andBug(angR, angD) == [c \in DOMAIN angR |-> angR[c] > 0 /\ angD[c] > 0]

\* np.logical_or(angR > 0, angD > 0)
logical_or(angR, angD) == [c \in DOMAIN angR |-> angR[c] > 0 \/ angD[c] > 0]

\* Variant of BoolIndex that walks the cells in column-major order.
BoolIndex_colMajor(a, mask, n0, n1) ==
  LET sel[n \in 0..(n0 * n1)] ==
        IF n = 0 THEN <<>>
        ELSE LET c == <<(n - 1) % n0, (n - 1) \div n0>>
             IN IF mask[c] THEN Append(sel[n-1], a[c]) ELSE sel[n-1]
  IN sel[n0 * n1]

\* a[mask] for a 2-D array and a boolean mask of its shape: the elements at
\* the true cells, in row-major (C) order.
BoolIndex(a, mask, n0, n1) ==
  LET sel[n \in 0..(n0 * n1)] ==
        IF n = 0 THEN <<>>
        ELSE LET c == <<(n - 1) \div n1, (n - 1) % n1>>
             IN IF mask[c] THEN Append(sel[n-1], a[c]) ELSE sel[n-1]
  IN sel[n0 * n1]

\* mask.ravel(): the mask flattened in row-major order.
ravel(mask, n0, n1) ==
  [f \in 0..(n0 * n1 - 1) |-> mask[<<f \div n1, f % n1>>]]

\* Variant of iAng that unravels column-major: iRA + binsRA*iDec.
iAng_colMajor(iRA, iDec, binsRA, binsDec) ==
  [k \in 1..Len(iRA) |-> iRA[k] + binsRA * iDec[k]]

\* iAng = binsDec*iRA + iDec
iAng(iRA, iDec, binsRA, binsDec) ==
  [k \in 1..Len(iRA) |-> binsDec * iRA[k] + iDec[k]]

\* Variant of csr_matrix in which a repeated cell keeps the last value.
csr_matrix_overwrite(data, rows, cols, nrows, ncols) ==
  LET acc[n \in 0..Len(data)] ==
        IF n = 0 THEN [c \in Cells(nrows, ncols) |-> 0]
        ELSE [acc[n-1] EXCEPT ![<<rows[n], cols[n]>>] = data[n]]
  IN acc[Len(data)]

\* csr_matrix((data, (rows, cols)), shape): entries that name the same cell
\* are summed.
csr_matrix(data, rows, cols, nrows, ncols) ==
  LET acc[n \in 0..Len(data)] ==
        IF n = 0 THEN [c \in Cells(nrows, ncols) |-> 0]
        ELSE [acc[n-1] EXCEPT ![<<rows[n], cols[n]>>] = @ + data[n]]
  IN acc[Len(data)]

\* frq[flat].toarray(): the rows of frq at the true positions of the flat
\* boolean mask, in ascending row order, each a dense row over the columns.
RowSelect(frq, flat, nrows, ncols) ==
  LET sel[n \in 0..nrows] ==
        IF n = 0 THEN <<>>
        ELSE IF flat[n-1]
             THEN Append(sel[n-1], [zb \in 0..(ncols - 1) |-> frq[<<n - 1, zb>>]])
             ELSE sel[n-1]
  IN sel[nrows]

angR(ctlg) ==
  histogram2d(Column(ctlg, "ra"), Column(ctlg, "dec"), Column(ctlg, "weightNoZ"),
              config.binningRA, config.binningDec)

\* Variant of angD that fills the histogram with weightNoZ.
angD_weightNoZ(ctlg) ==
  histogram2d(Column(ctlg, "ra"), Column(ctlg, "dec"), Column(ctlg, "weightNoZ"),
              config.binningRA, config.binningDec)

angD(ctlg) ==
  histogram2d(Column(ctlg, "ra"), Column(ctlg, "dec"), Column(ctlg, "weight"),
              config.binningRA, config.binningDec)

mask(R, D) == logical_or(angR(R), angD(D))

\* The table "ang": one row per true cell of the mask, the columns written in
\* the formats 'I', 'I', 'I' and 'E'.
angTable(R, D, mode) ==
  LET n0 == config.binningRA.bins
      n1 == config.binningDec.bins
      m  == mask(R, D)
      bRA  == BoolIndex(meshgridX(n0, n1), m, n0, n1)
      bDec == BoolIndex(meshgridY(n0, n1), m, n0, n1)
      cR   == BoolIndex(angR(R), m, n0, n1)
      cD   == BoolIndex(angD(D), m, n0, n1)
  IN [i \in 1..Len(bRA) |->
        [binRA  |-> AsInt16(bRA[i], "wrap"),
         binDec |-> AsInt16(bDec[i], "wrap"),
         countR |-> AsInt16(cR[i], mode),
         countD |-> AsFloat32(cD[i])]]

\* The image "angzD": the observed weights summed per (angular cell, z bin),
\* restricted to the rows of the mask.
angzD(R, D) ==
  LET binsZ   == config.binningZ.bins
      binsRA  == config.binningRA.bins
      binsDec == config.binningDec.bins
      iZ   == toBins(Column(D, "z"), config.binningZ)
      iRA  == toBins(Column(D, "ra"), config.binningRA)
      iDec == toBins(Column(D, "dec"), config.binningDec)
      frq  == csr_matrix(Column(D, "weight"), iAng(iRA, iDec, binsRA, binsDec), iZ,
                         binsRA * binsDec, binsZ)
  IN RowSelect(frq, ravel(mask(R, D), binsRA, binsDec), binsRA * binsDec, binsZ)

\* Variant of ang that returns [hdu2, hdu].
ang_swapped(R, D, mode) ==
  << [name |-> "angzD", data |-> angzD(R, D)],
     [name |-> "ang", data |-> angTable(R, D, mode)] >>

\* ang returns [hdu, hdu2]
ang(R, D, mode) ==
  << [name |-> "ang", data |-> angTable(R, D, mode)],
     [name |-> "angzD", data |-> angzD(R, D)] >>

\* routine.writeToFile: the file receives the tables collected so far.
writeToFile(h) == h

(***************************************************************************)
(* Inputs                                                                  *)
(***************************************************************************)
Entry(ra, dec, z, w, wZ, wNoZ) ==
  [ra |-> ra, dec |-> dec, z |-> z, weight |-> w, weightZ |-> wZ, weightNoZ |-> wNoZ]

\* Random entries for the angular tables: two cells, one of them on the closed
\* right edge of the RA range, with unit and large weights.
RandomAng ==
  { Entry(p[1], p[2], 0, 1, 1, w) : p \in {<<0, 1>>, <<2, 1>>}, w \in {1, 40000} }

\* Observed entries: inside the edges on every axis (toBins is given in-range
\* values only), on interior values and on the closed right edges.
ObservedAng ==
  { Entry(p[1], p[2], z, w, 1, 1) :
      p \in {<<0, 1>>, <<2, 0>>}, z \in {0, 2}, w \in {-1, 1} }

\* Random entries for the redshift histogram: z inside, on the closed right
\* edge and outside the range; weightZ of either sign and zero.
RandomPdf ==
  { Entry(0, 0, z, 1, w, 1) : z \in {0, 2, 3}, w \in {-1, 0, 1} }

LimbValues == {0, 100, 24064, 32766, 32767, 32768, 40000, 45776, 65535}

IndexValues ==
  { <<a, b, c, d, e>> : a \in {0, 1}, b \in {0, 32767, 32768, 65535},
                        c \in {0, 65535}, d \in LimbValues, e \in LimbValues }

NotRun ==
  /\ config = CHOOSE c \in Configs : c.binningDec.bins = 2
  /\ ctlgR = <<>>
  /\ ctlgD = <<>>
  /\ pc = "idle"
  /\ hdus = <<>>
  /\ file = <<>>

Started ==
  /\ pc = "start"
  /\ hdus = <<>>
  /\ file = <<>>
  /\ iMax = <<0, 0, 0, 0, 0>>
  /\ width = "none"

Init ==
  /\ config \in Configs
  /\ \E nR \in 0..MaxEntries :
       /\ ctlgR \in [1..nR -> RandomAng]
       /\ ctlgD \in SeqsUpTo(ObservedAng, MaxEntries - nR)
  /\ Started

InitPdf ==
  /\ config \in Configs
  /\ ctlgR \in SeqsUpTo(RandomPdf, MaxEntries)
  /\ ctlgD = <<>>
  /\ Started

InitIType ==
  /\ NotRun
  /\ iMax \in IndexValues
  /\ width = "none"

(***************************************************************************)
(* __call__, one action per statement                                      *)
(***************************************************************************)
Step(from, to, appended) ==
  /\ pc = from
  /\ pc' = to
  /\ hdus' = hdus \o appended
  /\ UNCHANGED <<config, ctlgR, ctlgD, file, iMax, width>>

AppendCenterZ ==
  Step("start", "centerZ", << binCenters(edges(config.binningZ), "centerZ") >>)

AppendCenterRA ==
  Step("centerZ", "centerRA", << binCenters(edges(config.binningRA), "centerRA") >>)

AppendCenterDec ==
  Step("centerRA", "centerDec", << binCenters(edges(config.binningDec), "centerDec") >>)

AppendPdfZ ==
  Step("centerDec", "pdfZ", << pdfZ(ctlgR) >>)

ExtendAng ==
  \E mode \in {"wrap", "saturate"} :
    Step("pdfZ", "ang", ang(ctlgR, ctlgD, mode))

WriteToFile ==
  /\ pc = "ang"
  /\ pc' = "written"
  /\ file' = writeToFile(hdus)
  /\ UNCHANGED <<config, ctlgR, ctlgD, hdus, iMax, width>>

Next ==
  \/ AppendCenterZ
  \/ AppendCenterRA
  \/ AppendCenterDec
  \/ AppendPdfZ
  \/ ExtendAng
  \/ WriteToFile

CallIType ==
  /\ pc = "idle"
  /\ width = "none"
  /\ width' = iType(iMax)
  /\ UNCHANGED <<config, ctlgR, ctlgD, pc, hdus, file, iMax>>

NextIType == CallIType

Spec == Init /\ [][Next]_vars

SpecPdf == InitPdf /\ [][Next]_vars

SpecIType == InitIType /\ [][NextIType]_vars

(***************************************************************************)
(* Properties                                                              *)
(***************************************************************************)
AngDone == pc \in {"ang", "written"}
PdfDone == pc \in {"pdfZ", "ang", "written"}

Names(h) == [i \in 1..Len(h) |-> h[i].name]
Data(name) == hdus[CHOOSE i \in 1..Len(hdus) : hdus[i].name = name].data

AngRows == Data("ang")
JointRows == Data("angzD")
PdfRows == Data("pdfZ")

nRA == config.binningRA.bins
nDec == config.binningDec.bins
nZ == config.binningZ.bins

\* The elements of a set of integers as a sequence in ascending order.
RECURSIVE Ascending(_)
Ascending(S) ==
  IF S = {} THEN <<>>
  ELSE LET m == CHOOSE x \in S : \A y \in S : x <= y
       IN <<m>> \o Ascending(S \ {m})

SumRow(row, n) ==
  LET f[k \in 0..n] == IF k = 0 THEN 0 ELSE f[k-1] + row[k-1]
  IN f[n]

\* Dense 3-D weighted histogram of the observed catalog over (raBin, decBin, zBin).
Dense3D(r, d, zb) ==
  SumSeq([k \in 1..Len(ctlgD) |->
            IF /\ InBin(ctlgD[k].ra, config.binningRA, r)
               /\ InBin(ctlgD[k].dec, config.binningDec, d)
               /\ InBin(ctlgD[k].z, config.binningZ, zb)
            THEN ctlgD[k].weight ELSE 0])

InsideEdges(ctlg) ==
  \A k \in 1..Len(ctlg) :
    /\ InRange(ctlg[k].ra, config.binningRA)
    /\ InRange(ctlg[k].dec, config.binningDec)
    /\ InRange(ctlg[k].z, config.binningZ)

TrueCells == {c \in Cells(nRA, nDec) : mask(ctlgR, ctlgD)[c]}

\* C1: with the observed entries inside the edges, the joint matrix got by
\* sparse accumulation and row selection with the mask equals, cell by cell,
\* the dense 3-D histogram reshaped to (numRA*numDec, numZ) and filtered by
\* the same mask.
C1_SparseEqualsDense ==
  (AngDone /\ InsideEdges(ctlgD)) =>
    LET rows == Ascending({nDec * c[1] + c[2] : c \in TrueCells})
    IN JointRows =
         [i \in 1..Len(rows) |->
            [zb \in 0..(nZ - 1) |-> Dense3D(rows[i] \div nDec, rows[i] % nDec, zb)]]

\* Two observed entries accumulate in one cell of a selected row.
C1_Witness ==
  /\ AngDone
  /\ \E j, k \in 1..Len(ctlgD) :
       /\ j < k
       /\ ctlgD[j].ra = ctlgD[k].ra /\ ctlgD[j].dec = ctlgD[k].dec
       /\ ctlgD[j].z = ctlgD[k].z
       /\ ctlgD[j].weight = 1 /\ ctlgD[k].weight = 1
  /\ \E i \in 1..Len(JointRows) : \E zb \in 0..(nZ - 1) : JointRows[i][zb] = 2

\* C2: a cell is in the angular table (the mask is true there) if and only if
\* the random histogram or the observed histogram is > 0 at that cell.
C2_MaskIffPositive ==
  AngDone =>
    {<<AngRows[i].binRA, AngRows[i].binDec>> : i \in 1..Len(AngRows)} =
      {c \in Cells(nRA, nDec) : angR(ctlgR)[c] > 0 \/ angD(ctlgD)[c] > 0}

\* One cell occupied by the random catalog alone, one by the observed catalog
\* alone, and one left out with a negative accumulated weight.
C2_Witness ==
  /\ AngDone
  /\ \E c1, c2, c3 \in Cells(nRA, nDec) :
       /\ angR(ctlgR)[c1] > 0 /\ angD(ctlgD)[c1] = 0
       /\ angR(ctlgR)[c2] = 0 /\ angD(ctlgD)[c2] > 0
       /\ angR(ctlgR)[c3] = 0 /\ angD(ctlgD)[c3] < 0
       /\ \E i \in 1..Len(AngRows) : <<AngRows[i].binRA, AngRows[i].binDec>> = c1
       /\ \E i \in 1..Len(AngRows) : <<AngRows[i].binRA, AngRows[i].binDec>> = c2
       /\ \A i \in 1..Len(AngRows) : <<AngRows[i].binRA, AngRows[i].binDec>> # c3

LexLess(a, b) == a[1] < b[1] \/ (a[1] = b[1] /\ a[2] < b[2])

\* C3: the (binRA, binDec) columns list exactly the true cells of the mask,
\* each once, in strictly ascending lexicographic order.
C3_CellsAscending ==
  AngDone =>
    /\ Len(AngRows) = Cardinality(TrueCells)
    /\ \A i \in 1..Len(AngRows) : <<AngRows[i].binRA, AngRows[i].binDec>> \in TrueCells
    /\ \A i, j \in 1..Len(AngRows) :
         i < j => LexLess(<<AngRows[i].binRA, AngRows[i].binDec>>,
                          <<AngRows[j].binRA, AngRows[j].binDec>>)

C3_Witness ==
  /\ AngDone
  /\ Len(AngRows) = 3
  /\ Cardinality(Cells(nRA, nDec)) = 4

\* C4: row i of the joint matrix is the accumulation of the cell of row i of
\* the angular table, which is the sparse row binsDec*binRA[i] + binDec[i];
\* the joint matrix has shape (number of true cells, numZ).
C4_RowAlignment ==
  AngDone =>
    LET frq == csr_matrix(Column(ctlgD, "weight"),
                          iAng(toBins(Column(ctlgD, "ra"), config.binningRA),
                               toBins(Column(ctlgD, "dec"), config.binningDec),
                               nRA, nDec),
                          toBins(Column(ctlgD, "z"), config.binningZ),
                          nRA * nDec, nZ)
    IN /\ Len(JointRows) = Cardinality(TrueCells)
       /\ Len(JointRows) = Len(AngRows)
       /\ \A i \in 1..Len(JointRows) :
            /\ DOMAIN JointRows[i] = 0..(nZ - 1)
            /\ \A zb \in 0..(nZ - 1) :
                 /\ JointRows[i][zb] = Dense3D(AngRows[i].binRA, AngRows[i].binDec, zb)
                 /\ JointRows[i][zb] = frq[<<nDec * AngRows[i].binRA + AngRows[i].binDec, zb>>]

\* Rows for the cells (0,1) and (1,0), with different contents.
C4_Witness ==
  /\ AngDone
  /\ Len(AngRows) >= 2
  /\ \E i, j \in 1..Len(AngRows) :
       /\ AngRows[i].binRA = 0 /\ AngRows[i].binDec = 1
       /\ AngRows[j].binRA = 1 /\ AngRows[j].binDec = 0
       /\ JointRows[i] # JointRows[j]

ZInRange(ctlg) == \A k \in 1..Len(ctlg) : InRange(ctlg[k].z, config.binningZ)

SumWeightZ == SumSeq(Column(ctlgR, "weightZ"))

\* The probabilities of the table add up to exactly 1: they are finite
\* fractions over one denominator and their numerators add up to it.
SumsToOne(rows) ==
  /\ Len(rows) > 0
  /\ \A i \in 1..Len(rows) :
       rows[i].probability.den # 0 /\ rows[i].probability.den = rows[1].probability.den
  /\ SumSeq([i \in 1..Len(rows) |-> rows[i].probability.num]) = rows[1].probability.den

\* C5: for a catalog whose weightZ has positive sum and whose z all lie in the
\* Z range, the probabilities of the pdfZ table sum to 1, and the table has
\* one (lowEdge, probability) row per bin.
C5_PdfSumsToOne ==
  (PdfDone /\ SumWeightZ > 0 /\ ZInRange(ctlgR)) =>
    /\ Len(PdfRows) = nZ
    /\ \A i \in 1..nZ : PdfRows[i].lowEdge = edges(config.binningZ)[i]
    /\ SumsToOne(PdfRows)

\* Several entries, one of them on the closed right edge and one of negative
\* weight, in a histogram of two bins.
C5_Witness ==
  /\ PdfDone
  /\ SumWeightZ > 0
  /\ ZInRange(ctlgR)
  /\ nZ = 2
  /\ Len(ctlgR) = 3
  /\ \E j, k \in 1..Len(ctlgR) :
       /\ ctlgR[j].z = config.binningZ.hi /\ ctlgR[j].weightZ > 0
       /\ ctlgR[k].weightZ < 0
  /\ SumsToOne(PdfRows)

\* C6: when the sum of the weights of a catalog is zero, building the redshift PDF fails
\* before any histogram is produced: no pdfZ table is appended and the run
\* writes nothing.
C6_DegenerateWeightsFail ==
  (Len(ctlgR) > 0 /\ SumWeightZ = 0) => (~PdfDone /\ file = <<>>)

Int64MaxL == <<0, Int16Max, 65535, 65535, 65535>>

MaxOf(w) ==
  IF w = "int16" THEN Int16MaxL ELSE IF w = "int32" THEN Int32MaxL ELSE Int64MaxL

CanRepresent(w, x) == ~Less(MaxOf(w), x)

Narrower(w) ==
  IF w = "int16" THEN {} ELSE IF w = "int32" THEN {"int16"} ELSE {"int16", "int32"}

\* C7 as stated: iType returns the smallest of the three widths that can
\* represent maxIndex, and the returned width can represent maxIndex.
C7_SmallestRepresenting ==
  width # "none" =>
    /\ CanRepresent(width, iMax)
    /\ \A w \in Narrower(width) : ~CanRepresent(w, iMax)

\* C7 amended: iType returns the smallest of the three widths whose largest
\* value is strictly greater than maxIndex, and the 64-bit width when there is
\* none (16 bits for 100, 32 bits for 40000, 64 bits for 3e9); the returned
\* width can represent every maxIndex up to 2^63 - 1.
C7_SmallestWithHeadroom ==
  width # "none" =>
    /\ width \in {"int16", "int32", "int64"}
    /\ width # "int64" => Less(iMax, MaxOf(width))
    /\ \A w \in Narrower(width) : ~Less(iMax, MaxOf(w))
    /\ ~Less(Int64MaxL, iMax) => CanRepresent(width, iMax)
    /\ iMax = <<0, 0, 0, 0, 100>> => width = "int16"
    /\ iMax = <<0, 0, 0, 0, 40000>> => width = "int32"
    /\ iMax = <<0, 0, 0, 45776, 24064>> => width = "int64"

\* The boundary value 32767 has been given the 32-bit width.
C7_Witness == iMax = Int16MaxL /\ width = "int32"

Order == <<"centerZ", "centerRA", "centerDec", "pdfZ", "ang", "angzD">>

\* C8: the tables are appended in the order centerZ, centerRA, centerDec,
\* pdfZ, ang, angzD, each once, and the file is written only after all of
\* them, with exactly these tables in this order.
C8_FixedOrder ==
  /\ Len(hdus) <= Len(Order)
  /\ Names(hdus) = SubSeq(Order, 1, Len(hdus))
  /\ pc # "written" => file = <<>>
  /\ pc = "written" => Names(hdus) = Order /\ Names(file) = Order

C8_Witness == pc = "written" /\ Len(file) = 6 /\ Len(ctlgR) > 0 /\ Len(ctlgD) > 0

\* C9: each row of the angular table stores its cell, the random catalog's
\* accumulated weightNoZ and the observed catalog's accumulated weight of that
\* cell without loss.
C9_StoredWithoutLoss ==
  AngDone =>
    LET cells == Ascending({nDec * c[1] + c[2] : c \in TrueCells})
    IN /\ Len(AngRows) = Len(cells)
       /\ \A i \in 1..Len(AngRows) :
            LET c == <<cells[i] \div nDec, cells[i] % nDec>>
            IN /\ AngRows[i].binRA = c[1]
               /\ AngRows[i].binDec = c[2]
               /\ AngRows[i].countR = angR(ctlgR)[c]
               /\ AngRows[i].countD = angD(ctlgD)[c]

====
